---------------------------- MODULE Spec2Model ----------------------------
(***************************************************************************)
(* A model of the QP-Trie of aglyzov/go-ds (package qptrie).               *)
(*                                                                         *)
(* A 64-bit word (a bitpack, a prefix, the bits takeNBits returns) is the  *)
(* set of the positions of its 1-bits, a subset of 0..63: OR is \cup, AND  *)
(* is \cap, XOR is the symmetric difference.  A byte is a number 0..255, a *)
(* key is a sequence of bytes.  A Twig is [bitpack, pointer]; a pointer is *)
(* a record tagged with the Go type of what it points at.                  *)
(***************************************************************************)
EXTENDS Integers, Sequences, FiniteSets, TLC

(***************************************************************************)
(* Bounds of the model.                                                    *)
(***************************************************************************)
MaxOps == 4

(***************************************************************************)
(* Constants of src/qptrie/twig.go and src/qptrie/nibble.go.               *)
(***************************************************************************)
leafBitOffset == 63
embKeyBitOffset == 62
cutBitOffset == 62
nibShiftOffset == 59
embKeySizeOffset == 56
nibSizeOffset == 56
pfxSizeOffset == 50
nibShiftWidth == 3
embKeySizeWidth == 3
nibSizeWidth == 3
pfxSizeWidth == 6
bitmapWidthMax == 33
embKeySizeMax == (2 ^ embKeySizeWidth) - 1
nibSizeMax == 5
byteShift == 3
byteWidth == 2 ^ byteShift
\* the width of uint64
wordWidth == 64

\* The nil interface value Get and Set return for "no value".
Nil == 0

(***************************************************************************)
(* uint64 arithmetic on sets of bit positions.                             *)
(***************************************************************************)
Min(a, b) == IF a < b THEN a ELSE b

Word == 0 .. (wordWidth - 1)

\* the bits of a non-negative number, from bit i up
RECURSIVE BitsFrom(_, _)
BitsFrom(n, i) ==
    IF n = 0 THEN {}
    ELSE (IF n % 2 = 1 THEN {i} ELSE {}) \cup BitsFrom(n \div 2, i + 1)

\* uint64(n) of a non-negative number
BitsOf(n) == BitsFrom(n, 0)

RECURSIVE ToInt(_)
ToInt(w) == IF w = {} THEN 0
            ELSE LET i == CHOOSE x \in w : TRUE IN (2 ^ i) + ToInt(w \ {i})

\* w << k and w >> k on uint64 (bits shifted out are lost)
Shl(w, k) == {i + k : i \in w} \cap Word
Shr(w, k) == {i - k : i \in {j \in w : j >= k}}

\* a mask that keeps every bit
FullMask(n) == 0 .. (wordWidth - 1)

\* (uint64(1) << n) - 1; in Go a shift by 64 or more gives 0, so the mask is
\* all ones for n >= 64
LowMask(n) == 0 .. (Min(n, wordWidth) - 1)

\* no bit at all
NoBit(n) == {}

\* uint64(1) << n
OneShl(n) == IF n < wordWidth THEN {n} ELSE {}

Xor(a, b) == (a \ b) \cup (b \ a)

\* bits.TrailingZeros64
TrailingZeros64(w) == IF w = {} THEN wordWidth
                      ELSE CHOOSE i \in w : \A j \in w : i <= j

\* the value of the width-bit field of w at offset off
Field(w, off, width) == ToInt({i - off : i \in w \cap (off .. (off + width - 1))})

leafBitMask == {leafBitOffset}
embKeyBitMask == {embKeyBitOffset}
cutBitMask == {cutBitOffset}
nibShiftMask == Shl(LowMask(nibShiftWidth), nibShiftOffset)
embKeySizeMask == Shl(LowMask(embKeySizeWidth), embKeySizeOffset)
nibSizeMask == Shl(LowMask(nibSizeWidth), nibSizeOffset)
pfxSizeMask == Shl(LowMask(pfxSizeWidth), pfxSizeOffset)

\* the whole string
KeepAll(str, n) == str

\* str[n:]
Drop(str, n) == SubSeq(str, n + 1, Len(str))
\* str[:n]
Take(str, n) == SubSeq(str, 1, n)
\* strings.HasPrefix
HasPrefix(s, prefix) == Len(s) >= Len(prefix) /\ Take(s, Len(prefix)) = prefix

(***************************************************************************)
(* nibble.go: the bit cursor.  Each returns [bits, key, shift].            *)
(***************************************************************************)
\* take5Bits without the bits of the second byte
take5BitsOneByte(str, skip) ==
    IF Len(str) = 0 THEN [bits |-> {5}, key |-> str, shift |-> 0]
    ELSE LET nshift == (skip + 5) % byteWidth
             nib == str[1] \div (2 ^ skip)
         IN  IF nshift > skip
             THEN [bits |-> BitsOf(nib % 32), key |-> str, shift |-> nshift]
             ELSE IF Len(str) = 1
             THEN [bits |-> BitsOf(nib), key |-> <<>>, shift |-> 0]
             ELSE [bits |-> BitsOf(nib % 32), key |-> Drop(str, 1), shift |-> nshift]

take5Bits(str, skip) ==
    IF Len(str) = 0 THEN [bits |-> {5}, key |-> str, shift |-> 0]
    ELSE LET nshift == (skip + 5) % byteWidth
             nib == str[1] \div (2 ^ skip)
         IN  IF nshift > skip
             THEN [bits |-> BitsOf(nib % 32), key |-> str, shift |-> nshift]
             ELSE IF Len(str) = 1
             THEN [bits |-> BitsOf(nib), key |-> <<>>, shift |-> 0]
             ELSE [bits |-> BitsOf((nib + ((str[2] * (2 ^ (byteWidth - skip))) % 256)) % 32),
                   key |-> Drop(str, 1), shift |-> nshift]

take4Bits(str, skip) ==
    IF Len(str) = 0 THEN [bits |-> {4}, key |-> str, shift |-> 0]
    ELSE LET nshift == (skip + 4) % byteWidth
             nib == str[1] \div (2 ^ skip)
         IN  IF nshift > skip
             THEN [bits |-> BitsOf(nib % 16), key |-> str, shift |-> nshift]
             ELSE IF Len(str) = 1
             THEN [bits |-> BitsOf(nib), key |-> <<>>, shift |-> 0]
             ELSE [bits |-> BitsOf((nib + ((str[2] * (2 ^ (byteWidth - skip))) % 256)) % 16),
                   key |-> Drop(str, 1), shift |-> nshift]

\* the general path of takeNBits (nibble.go:26-49)
takeNBitsSlow(str, skip, num) ==
    IF Len(str) = 0 THEN [bits |-> OneShl(num), key |-> str, shift |-> 0]
    ELSE LET strBits == Len(str) * byteWidth - skip
             needBits == IF num > strBits THEN strBits ELSE num
             \* result = str[0] >> skip, then |= str[i] << doneBits while
             \* doneBits = 8*i - skip < needBits
             result == BitsOf(str[1] \div (2 ^ skip)) \cup
                       UNION {Shl(BitsOf(str[i + 1]), byteWidth * i - skip) :
                              i \in {j \in 1 .. (Len(str) - 1) :
                                       byteWidth * j - skip < needBits}}
             offset == skip + needBits
         IN  [bits |-> result \cap LowMask(num),
              key |-> Drop(str, offset \div byteWidth),
              shift |-> offset % byteWidth]

takeNBits(str, skip, num) ==
    IF num = 4 THEN take4Bits(str, skip)
    ELSE IF num = 5 THEN take5Bits(str, skip)
    ELSE takeNBitsSlow(str, skip, num)

(***************************************************************************)
(* The embedded-key codec.                                                 *)
(***************************************************************************)
\* the n bytes of key from byte off on, read as one number with the first
\* byte in the highest place
LoadBE(key, off, n) ==
    UNION {Shl(BitsOf(key[off + i + 1]), byteWidth * (n - 1 - i)) : i \in 0 .. (n - 1)}

\* *(*uint32)(ptr), *(*uint16)(ptr): the n bytes of key from byte off on, read
\* as one number the way a little-endian machine reads it (the bitpacks that
\* testEmbedKey expects of embedKey are those of such a machine)
LoadLE(key, off, n) ==
    UNION {Shl(BitsOf(key[off + i + 1]), byteWidth * i) : i \in 0 .. (n - 1)}

\* uint64(key[i]) << (byteWidth * i)
ByteAt(key, i) == Shl(BitsOf(key[i + 1]), byteWidth * i)

\* the switch of embedKey: the cases 7, 5 and 3 fall through to 6, 4 and 2
embedKeyData(key, size) ==
    IF size = 7 THEN ByteAt(key, 6) \cup LoadLE(key, 0, 4) \cup Shl(LoadLE(key, 4, 2), byteWidth * 4)
    ELSE IF size = 6 THEN LoadLE(key, 0, 4) \cup Shl(LoadLE(key, 4, 2), byteWidth * 4)
    ELSE IF size = 5 THEN ByteAt(key, 4) \cup LoadLE(key, 0, 4)
    ELSE IF size = 4 THEN LoadLE(key, 0, 4)
    ELSE IF size = 3 THEN ByteAt(key, 2) \cup LoadLE(key, 0, 2)
    ELSE IF size = 2 THEN LoadLE(key, 0, 2)
    ELSE IF size = 1 THEN ByteAt(key, 0)
    ELSE {}

embedKeySized(key, size) ==
    embKeyBitMask \cup Shl(BitsOf(size), embKeySizeOffset) \cup embedKeyData(key, size)

embedKey(key) == embedKeySized(key, Min(Len(key), embKeySizeMax))

\* the byte loop
embedKeySlow(key) ==
    LET size == Min(Len(key), embKeySizeMax)
    IN  embKeyBitMask \cup Shl(BitsOf(size), embKeySizeOffset) \cup
        UNION {Shl(BitsOf(key[i + 1]), byteWidth * i) : i \in 0 .. (size - 1)}

\* unsafe.String((*byte)(ptr), size): the first size bytes of the word data
\* as they lie in the memory of a little-endian machine
extractKeyData(data, size) ==
    [i \in 1 .. size |-> Field(data, byteWidth * (i - 1), byteWidth)]

extractKey(bitpack) ==
    extractKeyData(bitpack \cap LowMask(embKeySizeOffset),
                   Field(bitpack, embKeySizeOffset, embKeySizeWidth))

\* the byte loop
extractKeySlow(bitpack) ==
    LET size == Field(bitpack, embKeySizeOffset, embKeySizeWidth)
    IN  [i \in 1 .. size |-> Field(bitpack, byteWidth * (i - 1), byteWidth)]

(***************************************************************************)
(* Pointers.  unsafe.Pointer carries no type; the tag t records the type   *)
(* of the object the pointer was made from.                                *)
(***************************************************************************)
unsetPtr == [t |-> "unset", key |-> <<>>, val |-> Nil, twigs |-> <<>>]
\* unsafe.Pointer(&val): a cell holding a value
PtrVal(v) == [t |-> "val", key |-> <<>>, val |-> v, twigs |-> <<>>]
\* unsafe.Pointer(&KV{key, val}) of a regular leaf
PtrKV(k, v) == [t |-> "kv", key |-> k, val |-> v, twigs |-> <<>>]
\* unsafe.Pointer(&KV{cut, twig}) of a regular cut-node
PtrCutKV(k, tw) == [t |-> "cutkv", key |-> k, val |-> Nil, twigs |-> <<tw>>]
\* a pointer at one Twig or at an array of Twigs
PtrTwigs(tws) == [t |-> "twigs", key |-> <<>>, val |-> Nil, twigs |-> tws]

IsLeaf(twig) == leafBitOffset \in twig.bitpack
IsNode(twig) == ~IsLeaf(twig)
IsCutNode(twig) == IsNode(twig) /\ cutBitOffset \in twig.bitpack
IsFanNode(twig) == IsNode(twig) /\ cutBitOffset \notin twig.bitpack
Shift(twig) == Field(twig.bitpack, nibShiftOffset, nibShiftWidth)
FanNibbleSize(twig) == Field(twig.bitpack, nibSizeOffset, nibSizeWidth)
FanPrefixSize(twig) == Field(twig.bitpack, pfxSizeOffset, pfxSizeWidth)
\* the prefix bits, a word
FanPrefix(twig) ==
    LET pfxSize == FanPrefixSize(twig)
    IN  Shr(twig.bitpack, pfxSizeOffset - pfxSize) \cap LowMask(pfxSize)
\* the child bitmap, a word
FanBitmap(twig) == twig.bitpack \cap LowMask((2 ^ FanNibbleSize(twig)) + 1)

(***************************************************************************)
(* Constructors.                                                           *)
(***************************************************************************)
newLeaf(key, shift, val) ==
    LET bitpack == leafBitMask \cup Shl(BitsOf(shift), nibShiftOffset)
    IN  IF Len(key) <= embKeySizeMax
        THEN [bitpack |-> bitpack \cup embedKey(key), pointer |-> PtrVal(val)]
        ELSE [bitpack |-> bitpack, pointer |-> PtrKV(key, val)]

newCutNode(cut, shift, twig) ==
    LET bitpack == cutBitMask \cup Shl(BitsOf(shift), nibShiftOffset)
    IN  IF Len(cut) <= embKeySizeMax
        THEN [bitpack |-> bitpack \cup embedKey(cut), pointer |-> PtrTwigs(<<twig>>)]
        ELSE [bitpack |-> bitpack, pointer |-> PtrCutKV(cut, twig)]

\* a fan-node that is always given the nibble size 4
newFanNodeNarrow(nibShift, nibSize, pfxSize, pfx) ==
    [bitpack |-> (Shl(BitsOf(nibShift), nibShiftOffset) \cap nibShiftMask) \cup
                 (Shl(BitsOf(4), nibSizeOffset) \cap nibSizeMask),
     pointer |-> unsetPtr]

\* pfx is a word
newFanNode(nibShift, nibSize, pfxSize, pfx) ==
    LET bitpack == (Shl(BitsOf(nibShift), nibShiftOffset) \cap nibShiftMask) \cup
                   (Shl(BitsOf(nibSize), nibSizeOffset) \cap nibSizeMask)
    IN  [bitpack |-> IF pfxSize > 0
                     THEN bitpack \cup
                          (Shl(BitsOf(pfxSize), pfxSizeOffset) \cap pfxSizeMask) \cup
                          Shl(pfx \cap LowMask(pfxSize), pfxSizeOffset - pfxSize)
                     ELSE bitpack,
         pointer |-> unsetPtr]

(***************************************************************************)
(* Leaf and cut-node accessors.                                            *)
(***************************************************************************)
getLeafKey(leaf) ==
    IF embKeyBitOffset \notin leaf.bitpack THEN leaf.pointer.key
    ELSE extractKey(leaf.bitpack)

\* [key, val]
getLeafKV(leaf) ==
    IF embKeyBitOffset \notin leaf.bitpack
    THEN [key |-> leaf.pointer.key, val |-> leaf.pointer.val]
    ELSE [key |-> extractKey(leaf.bitpack), val |-> leaf.pointer.val]

\* [twig, old]: the leaf after the store, and the value it held
setLeafValue(leaf, val) ==
    IF embKeyBitOffset \in leaf.bitpack
    THEN [twig |-> [leaf EXCEPT !.pointer = PtrVal(val)], old |-> leaf.pointer.val]
    ELSE [twig |-> [leaf EXCEPT !.pointer.val = val], old |-> leaf.pointer.val]

\* getCutNodeKey and getCutNodeTwig take a cut-node whose embedded size is 0
\* for a regular one and read its pointer as *KV.  When the pointer was made
\* from a *Twig (newCutNode on an empty chunk) that read is of another type:
\*  - KV.Key is read over the child Twig {bitpack, pointer}: a string whose
\*    length is the child's pointer (64-bit build) or the upper half of the
\*    child's bitpack (32-bit build; the child of a cut-node is a fan-node,
\*    whose bit 63 is clear and whose nibble size is not 0).  Either is a
\*    positive number larger than any key, so strings.HasPrefix(key, chunk)
\*    is false without reading the chunk's bytes;
\*  - KV.Val is read past the end of the child Twig and asserted to be a
\*    *Twig, which fails.
CutIsRegular(node) == (node.bitpack \cap embKeySizeMask) = {}
CutIsConfused(node) == CutIsRegular(node) /\ node.pointer.t # "cutkv"

getCutNodeKey(node) ==
    IF CutIsRegular(node) THEN node.pointer.key
    ELSE extractKey(node.bitpack)

getCutNodeTwig(node) == node.pointer.twigs[1]

(***************************************************************************)
(* findClosest (twig.go:99-184).  Returns [path, key, ok, ub, shifts]:     *)
(* path is the sequence of child indexes (1-based) from qp to the closest  *)
(* twig, key the rest of the key there, ok whether the key was found, ub   *)
(* whether the walk stopped at a confused cut-node (HasPrefix false        *)
(* there), and shifts the value of the variable shift on arrival at each   *)
(* twig of the walk, qp first.                                             *)
(***************************************************************************)
Stop(path, key, ok, ub, shifts) ==
    [path |-> path, key |-> key, ok |-> ok, ub |-> ub, shifts |-> shifts]

RECURSIVE findFrom(_, _, _, _, _)
RECURSIVE findAt(_, _, _, _, _)
RECURSIVE findInFan(_, _, _, _, _, _)

\* twig.go:165-179: the nibble step of a fan-node; tn is what takeNBits gave
\* for the nibble, prevKey the key on arrival
findInFan(cur, prevKey, path, shifts, nib, tn) ==
    IF nib \notin FanBitmap(cur) THEN Stop(path, prevKey, FALSE, FALSE, shifts)
    ELSE findFrom(cur.pointer.twigs[Cardinality(FanBitmap(cur) \cap LowMask(nib)) + 1],
                  tn.key, tn.shift,
                  Append(path, Cardinality(FanBitmap(cur) \cap LowMask(nib)) + 1),
                  shifts)

\* twig.go:164-166: take the nibble; nib = byte(nib64)
findNibble(cur, prevKey, path, shifts, tn) ==
    findInFan(cur, prevKey, path, shifts, ToInt(tn.bits \cap LowMask(byteWidth)), tn)

\* twig.go:148-162: the prefix check; tp is what takeNBits gave for the prefix
findPrefix(cur, prevKey, path, shifts, tp) ==
    IF FanPrefix(cur) # tp.bits THEN Stop(path, prevKey, FALSE, FALSE, shifts)
    ELSE findNibble(cur, prevKey, path, shifts,
                    takeNBits(tp.key, tp.shift, FanNibbleSize(cur)))

\* twig.go:113-126: a cut-node
findInCut(cur, key, path, shifts, chunk) ==
    IF ~HasPrefix(key, chunk) THEN Stop(path, key, FALSE, FALSE, shifts)
    ELSE findFrom(getCutNodeTwig(cur), Drop(key, Len(chunk)), 0, Append(path, 1),
                  shifts)

\* one round of the loop of twig.go:110-181, and the leaf test after it
findAt(cur, key, shift, path, shifts) ==
    IF IsLeaf(cur)
    THEN Stop(path, key, key = getLeafKey(cur), FALSE, shifts)
    ELSE IF cutBitOffset \in cur.bitpack
    THEN IF CutIsConfused(cur) THEN Stop(path, key, FALSE, TRUE, shifts)
         ELSE findInCut(cur, key, path, shifts, getCutNodeKey(cur))
    ELSE IF FanBitmap(cur) = {} THEN Stop(path, key, FALSE, FALSE, shifts)
    ELSE IF FanPrefixSize(cur) > 0
    THEN findPrefix(cur, key, path, shifts, takeNBits(key, shift, FanPrefixSize(cur)))
    ELSE findNibble(cur, key, path, shifts, takeNBits(key, shift, FanNibbleSize(cur)))

\* the walk arrives at cur with the rest of the key and its shift
findFrom(cur, key, shift, path, shifts) ==
    findAt(cur, key, shift, path, Append(shifts, shift))

findClosest(qp, key) == findFrom(qp, key, Shift(qp), <<>>, <<>>)

RECURSIVE TwigAt(_, _)
TwigAt(twig, path) ==
    IF path = <<>> THEN twig
    ELSE TwigAt(twig.pointer.twigs[Head(path)], Tail(path))

\* the trie with the twig at path overwritten (*closest = ...)
RECURSIVE ReplaceAt(_, _, _)
ReplaceAt(twig, path, new) ==
    IF path = <<>> THEN new
    ELSE [twig EXCEPT !.pointer.twigs[Head(path)] = ReplaceAt(@, Tail(path), new)]

(***************************************************************************)
(* addToLeaf (leaf.go:69-148).  Returns the twig that replaces the leaf.   *)
(***************************************************************************)
\* the length of the shorter key, whatever the bytes are
CommonBytesShorter(a, b) == IF Len(a) < Len(b) THEN Len(a) ELSE Len(b)

\* the number of common prefix bytes
RECURSIVE CommonBytes(_, _)
CommonBytes(a, b) ==
    IF a # <<>> /\ b # <<>> /\ Head(a) = Head(b)
    THEN 1 + CommonBytes(Tail(a), Tail(b))
    ELSE 0

\* leaf.go:114-147: take a nibble of both keys, append a fan-node while the
\* nibbles are equal, end with two leaves.  cur is the fan-node being filled.
RECURSIVE leafBridge(_, _, _, _, _, _, _)
RECURSIVE leafBridgeStep(_, _, _, _, _, _, _)

\* t1, t2: what takeNBits gave for the two keys; nib1, nib2: the nibbles
leafBridgeStep(cur, t1, t2, nib1, nib2, val, oldVal) ==
    IF nib1 = nib2
    THEN [bitpack |-> cur.bitpack \cup OneShl(nib1),
          pointer |-> PtrTwigs(<<leafBridge(newFanNode(t1.shift, nibSizeMax, 0, {}),
                                            t1.key, t1.shift, t2.key, t2.shift,
                                            val, oldVal)>>)]
    ELSE [bitpack |-> cur.bitpack \cup OneShl(nib1) \cup OneShl(nib2),
          pointer |-> PtrTwigs(IF nib1 < nib2
                               THEN <<newLeaf(t1.key, t1.shift, val),
                                      newLeaf(t2.key, t2.shift, oldVal)>>
                               ELSE <<newLeaf(t2.key, t2.shift, oldVal),
                                      newLeaf(t1.key, t1.shift, val)>>)]

leafBridgeNibs(cur, t1, t2, val, oldVal) ==
    leafBridgeStep(cur, t1, t2, ToInt(t1.bits), ToInt(t2.bits), val, oldVal)

leafBridge(cur, key1, shift1, key2, shift2, val, oldVal) ==
    leafBridgeNibs(cur, takeNBits(key1, shift1, nibSizeMax),
                   takeNBits(key2, shift2, nibSizeMax), val, oldVal)

\* an addToLeaf that never cuts the common prefix bytes off
addToLeafAtNoCut(shift, key, kv, num, val) ==
    leafBridge(newFanNode(shift, nibSizeMax, 0, {}),
               key, shift, kv.key, shift, val, kv.val)

\* leaf.go:86-112: cut the common prefix bytes off, or put a fan-node in place
addToLeafAt(shift, key, kv, num, val) ==
    IF num > 0
    THEN newCutNode(Take(key, num), shift,
                    leafBridge(newFanNode(0, nibSizeMax, 0, {}),
                               Drop(key, num), 0, Drop(kv.key, num), 0,
                               val, kv.val))
    ELSE leafBridge(newFanNode(shift, nibSizeMax, 0, {}),
                    key, shift, kv.key, shift, val, kv.val)

\* leaf.go:119-129: the loop ends from where it has key1 at shift1 and key2 at
\* shift2 still to read.  It goes on while the nibbles are equal; a round
\* that leaves both keys and shifts as they were (both keys used up, with
\* equal nibbles) is followed by the same round for ever.
RECURSIVE leafLoopEnds(_, _, _, _)
leafLoopEnds(key1, shift1, key2, shift2) ==
    LET t1 == takeNBits(key1, shift1, nibSizeMax)
        t2 == takeNBits(key2, shift2, nibSizeMax)
    IN  IF t1.bits # t2.bits THEN TRUE
        ELSE IF t1.key = key1 /\ t1.shift = shift1 /\ t2.key = key2 /\ t2.shift = shift2
        THEN FALSE
        ELSE leafLoopEnds(t1.key, t1.shift, t2.key, t2.shift)

\* addToLeaf returns
addToLeafEndsAt(shift, key, kv, num) ==
    IF num > 0 THEN leafLoopEnds(Drop(key, num), 0, Drop(kv.key, num), 0)
    ELSE leafLoopEnds(key, shift, kv.key, shift)

addToLeafEnds(leaf, key, kv) ==
    addToLeafEndsAt(Shift(leaf), key, kv, CommonBytes(key, kv.key))

addToLeafKV(leaf, key, kv, val) ==
    addToLeafAt(Shift(leaf), key, kv, CommonBytes(key, kv.key), val)

addToLeaf(leaf, key, val) == addToLeafKV(leaf, key, getLeafKV(leaf), val)

(***************************************************************************)
(* addToCutNode (unnamed/part_002:106-227).  Returns the twig that         *)
(* replaces the cut-node.                                                  *)
(***************************************************************************)
\* part_002:140-174 and 190-224: the same bridge, ending with a new leaf for
\* the key and a new cut-node for the rest of the cut.
RECURSIVE cutBridge(_, _, _, _, _, _, _)
RECURSIVE cutBridgeStep(_, _, _, _, _, _, _)

cutBridgeStep(newFan, t1, t2, nib1, nib2, val, twig) ==
    IF nib1 = nib2
    THEN [bitpack |-> newFan.bitpack \cup OneShl(nib1),
          pointer |-> PtrTwigs(<<cutBridge(newFanNode(t1.shift, nibSizeMax, 0, {}),
                                           t1.key, t1.shift, t2.key, t2.shift,
                                           val, twig)>>)]
    ELSE [bitpack |-> newFan.bitpack \cup OneShl(nib1) \cup OneShl(nib2),
          pointer |-> PtrTwigs(IF nib1 < nib2
                               THEN <<newLeaf(t1.key, t1.shift, val),
                                      newCutNode(t2.key, t2.shift, twig)>>
                               ELSE <<newCutNode(t2.key, t2.shift, twig),
                                      newLeaf(t1.key, t1.shift, val)>>)]

cutBridgeNibs(newFan, t1, t2, val, twig) ==
    cutBridgeStep(newFan, t1, t2, ToInt(t1.bits), ToInt(t2.bits), val, twig)

cutBridge(newFan, key1, shift1, key2, shift2, val, twig) ==
    cutBridgeNibs(newFan, take5Bits(key1, shift1), take5Bits(key2, shift2), val, twig)

\* part_002:125-226
addToCutNodeAt(shift, key, cut, twig, num, val) ==
    IF num > 0
    THEN newCutNode(Take(key, num), shift,
                    cutBridge(newFanNode(0, nibSizeMax, 0, {}),
                              Drop(key, num), 0, Drop(cut, num), 0, val, twig))
    ELSE cutBridge(newFanNode(shift, nibSizeMax, 0, {}),
                   key, shift, cut, shift, val, twig)

\* part_002:144-156 and 194-206: the loop ends (as leafLoopEnds)
RECURSIVE cutLoopEnds(_, _, _, _)
cutLoopEnds(key1, shift1, key2, shift2) ==
    LET t1 == take5Bits(key1, shift1)
        t2 == take5Bits(key2, shift2)
    IN  IF t1.bits # t2.bits THEN TRUE
        ELSE IF t1.key = key1 /\ t1.shift = shift1 /\ t2.key = key2 /\ t2.shift = shift2
        THEN FALSE
        ELSE cutLoopEnds(t1.key, t1.shift, t2.key, t2.shift)

\* addToCutNode returns
addToCutNodeEndsAt(shift, key, cut, num) ==
    IF num > 0 THEN cutLoopEnds(Drop(key, num), 0, Drop(cut, num), 0)
    ELSE cutLoopEnds(key, shift, cut, shift)

addToCutNodeEnds(node, key, cut) ==
    addToCutNodeEndsAt(Shift(node), key, cut, CommonBytes(key, cut))

addToCutNodeKey(node, key, cut, val) ==
    addToCutNodeAt(Shift(node), key, cut, getCutNodeTwig(node),
                   CommonBytes(key, cut), val)

addToCutNode(node, key, val) == addToCutNodeKey(node, key, getCutNodeKey(node), val)

(***************************************************************************)
(* addToFanNode (fan.go:32-277).  Returns the twig that replaces the node. *)
(***************************************************************************)
\* fan.go:45-49: with a prefix, an empty key and a stored shift above 0 the
\* number of bits to take is negative and takeNBits shifts by it, which
\* panics at run time.
addToFanNodePanics(node, key) ==
    FanPrefixSize(node) > 0 /\ Len(key) * byteWidth - Shift(node) < 0

\* The state after the prefix block (fan.go:40-229): the node (replaced when
\* the prefix was split), the rest of the key and its shift, and the key and
\* shift a leaf that replaces an empty node gets.
AfterPrefix(node, key, shift, prevKey, prevShift) ==
    [node |-> node, key |-> key, shift |-> shift,
     prevKey |-> prevKey, prevShift |-> prevShift]

\* fan.go:183-201: the sizes [newPfxSize, newNibSize, oldPfxSize], from the
\* number of matching bits.  The loop borrows bits of the matching part until
\* the new nibble has nibSizeMax bits or no matching bit is left.
fanSplitSizes(pfxSize, bitsToTake, matching) ==
    LET borrowed == IF bitsToTake - matching < nibSizeMax
                    THEN Min(nibSizeMax - (bitsToTake - matching), matching)
                    ELSE 0
        wideNibSize == bitsToTake - matching + borrowed
    IN  [newPfxSize |-> matching - borrowed,
         newNibSize |-> Min(wideNibSize, nibSizeMax),
         oldPfxSize |-> pfxSize - bitsToTake +
                        (IF wideNibSize > nibSizeMax THEN wideNibSize - nibSizeMax
                         ELSE 0)]

\* fan.go:203-210: the copy of the old node with its shift and prefix size
\* fields rewritten
fanSplitOld(node, oldShift, oldPfxSize) ==
    [node EXCEPT !.bitpack = (@ \ (nibShiftMask \cup pfxSizeMask)) \cup
                             Shl(BitsOf(oldShift), nibShiftOffset) \cup
                             Shl(BitsOf(oldPfxSize), pfxSizeOffset)]

\* fan.go:212-221: the fan-node put before the old one
fanSplitNew(prevShift, pfx, sz, oldFan) ==
    [bitpack |-> newFanNode(prevShift, sz.newNibSize, sz.newPfxSize,
                            pfx \cap LowMask(sz.newPfxSize)).bitpack \cup
                 OneShl(ToInt(Shr(pfx, sz.newPfxSize) \cap LowMask(sz.newNibSize))),
     pointer |-> PtrTwigs(<<oldFan>>)]

\* fan.go:224-227: trim the new prefix off the key
fanSplitTrim(newFan, ts) == AfterPrefix(newFan, ts.key, ts.shift, ts.key, ts.shift)

fanSplitSized(node, key, prevShift, pfx, sz) ==
    fanSplitTrim(fanSplitNew(prevShift, pfx, sz,
                             fanSplitOld(node,
                                         (prevShift + sz.newPfxSize + sz.newNibSize)
                                             % byteWidth,
                                         sz.oldPfxSize)),
                 takeNBits(key, prevShift, sz.newPfxSize))

\* fan.go:183-186: diff = (pfx ^ nib64) | (1 << bitsToTake)
fanSplit(node, key, prevShift, pfxSize, pfx, bitsToTake, nib64) ==
    fanSplitSized(node, key, prevShift, pfx,
                  fanSplitSizes(pfxSize, bitsToTake,
                                TrailingZeros64(Xor(pfx, nib64) \cup OneShl(bitsToTake))))

\* fan.go:51-54: t is what takeNBits gave for the prefix
fanPrefixMatch(node, key, shift, pfxSize, pfx, bitsAvail, t) ==
    IF pfx = t.bits /\ pfxSize <= bitsAvail
    THEN AfterPrefix(node, t.key, t.shift, key, shift)
    ELSE fanSplit(node, key, shift, pfxSize, pfx, Min(pfxSize, bitsAvail), t.bits)

fanPrefixTake(node, key, shift, pfxSize, pfx, bitsAvail) ==
    fanPrefixMatch(node, key, shift, pfxSize, pfx, bitsAvail,
                   takeNBits(key, shift, Min(pfxSize, bitsAvail)))

\* fan.go:33-49
fanPrefixBlock(node, key) ==
    IF FanPrefixSize(node) > 0
    THEN fanPrefixTake(node, key, Shift(node), FanPrefixSize(node), FanPrefix(node),
                       Len(key) * byteWidth - Shift(node))
    ELSE AfterPrefix(node, key, Shift(node), key, Shift(node))

\* fan.go:262-276: newTwigs is curTwigs with the leaf put at idx
fanSplice(node, bit, leaf, curTwigs, idx) ==
    [bitpack |-> node.bitpack \cup bit,
     pointer |-> PtrTwigs(Take(curTwigs, idx) \o <<leaf>> \o Drop(curTwigs, idx))]

\* fan.go:246-252
fanInsertNib(node, bitmap, nib, leaf) ==
    fanSplice(node, OneShl(nib), leaf,
              Take(node.pointer.twigs, Cardinality(bitmap)),
              Cardinality(bitmap \cap LowMask(nib)))

\* fan.go:243-244: tn is what takeNBits gave for the nibble
fanInsertLeaf(node, tn, val) ==
    fanInsertNib(node, FanBitmap(node), ToInt(tn.bits \cap LowMask(byteWidth)),
                 newLeaf(tn.key, tn.shift, val))

\* an insert that keeps an empty fan-node a fan-node whatever replaceEmpty is
fanInsertKeepNode(ap, val, replaceEmpty) ==
    fanInsertLeaf(ap.node, takeNBits(ap.key, ap.shift, FanNibbleSize(ap.node)), val)

\* fan.go:231-276: ap is the state after the prefix block
fanInsert(ap, val, replaceEmpty) ==
    IF FanBitmap(ap.node) = {} /\ replaceEmpty
    THEN newLeaf(ap.prevKey, ap.prevShift, val)
    ELSE fanInsertLeaf(ap.node, takeNBits(ap.key, ap.shift, FanNibbleSize(ap.node)), val)

\* addToFanNode taking every replaceEmpty for false
addToFanNodeNoReplace(node, key, val, replaceEmpty) ==
    fanInsert(fanPrefixBlock(node, key), val, FALSE)

addToFanNode(node, key, val, replaceEmpty) ==
    fanInsert(fanPrefixBlock(node, key), val, replaceEmpty)

(***************************************************************************)
(* New, Get, Set (twig.go:54-97).                                          *)
(***************************************************************************)
New == newFanNode(0, nibSizeMax, 0, {})

\* Get (twig.go:65-71): [val, ok].  At a confused cut-node (findFrom) the
\* walk ends with a mismatch, so Get reports the key as not found.
getFound(qp, fc) ==
    IF fc.ok THEN [val |-> getLeafKV(TwigAt(qp, fc.path)).val, ok |-> TRUE]
    ELSE [val |-> Nil, ok |-> FALSE]

Get(qp, key) == getFound(qp, findClosest(qp, key))

\* What Set gives: [root, val, ok, panic], the trie after the call, the
\* values it returns, and whether it panicked instead.
SetResult(qp, val, ok, panic) == [root |-> qp, val |-> val, ok |-> ok, panic |-> panic]

\* twig.go:77-80: the key is in the trie, replace its value
setReplace(qp, path, sv) == SetResult(ReplaceAt(qp, path, sv.twig), sv.old, TRUE, FALSE)

\* twig.go:82-96: fc is what findClosest gave, closest the twig it stopped at
setAt(qp, fc, closest, val) ==
    IF fc.ub
    THEN \* addToCutNode calls getCutNodeTwig on the confused cut-node
         SetResult(qp, Nil, FALSE, TRUE)
    ELSE IF fc.ok THEN setReplace(qp, fc.path, setLeafValue(closest, val))
    ELSE IF ~IsLeaf(closest)
    THEN IF cutBitOffset \notin closest.bitpack
         THEN IF addToFanNodePanics(closest, fc.key)
              THEN SetResult(qp, Nil, FALSE, TRUE)
              ELSE SetResult(ReplaceAt(qp, fc.path,
                                       addToFanNode(closest, fc.key, val, TRUE)),
                             Nil, FALSE, FALSE)
         ELSE SetResult(ReplaceAt(qp, fc.path, addToCutNode(closest, fc.key, val)),
                        Nil, FALSE, FALSE)
    ELSE SetResult(ReplaceAt(qp, fc.path, addToLeaf(closest, fc.key, val)),
                   Nil, FALSE, FALSE)

setFound(qp, fc, val) == setAt(qp, fc, TwigAt(qp, fc.path), val)

\* twig.go:82-96: the call that Set makes where findClosest stopped returns
\* (addToFanNode has one loop, fan.go:190-193, which counts newPfxSize down)
setEndsAt(fc, closest) ==
    IF fc.ub \/ fc.ok THEN TRUE
    ELSE IF IsLeaf(closest) THEN addToLeafEnds(closest, fc.key, getLeafKV(closest))
    ELSE IF cutBitOffset \in closest.bitpack
    THEN addToCutNodeEnds(closest, fc.key, getCutNodeKey(closest))
    ELSE TRUE

setEndsFound(qp, fc) == setEndsAt(fc, TwigAt(qp, fc.path))

SetEnds(qp, key) == setEndsFound(qp, findClosest(qp, key))

Set(qp, key, val) == setFound(qp, findClosest(qp, key), val)

(***************************************************************************)
(* The program: a trie made by New(), then Set and Get calls.              *)
(*   root     - the root Twig (the whole trie, as a value)                 *)
(*   state    - the last value given to Set for each key, Nil if none      *)
(*              (the map of TestSet_Get)                                   *)
(*   ret      - the last call and what it returned                         *)
(*   nops     - the number of Set calls made                               *)
(*   panicked - the last call panicked                                     *)
(***************************************************************************)
VARIABLES root, state, ret, nops, panicked

vars == <<root, state, ret, nops, panicked>>

\* 8 zero bytes: longer than an embedded key
LongStem == <<0, 0, 0, 0, 0, 0, 0, 0>>

\* keys that need a regular leaf, and a regular cut-node for their stem
LongKeys == {LongStem \o <<0>>, LongStem \o <<32>>}

\* The short keys given to Set: the empty key, "\x00", " " (0x20, which
\* differs from 0x00 in the one bit that tells upper from lower case),
\* "\x00\x00" (a zero-byte extension of "\x00") and "\x00 ".
ShortKeys == {<<>>, <<0>>, <<32>>, <<0, 0>>, <<0, 32>>}

SetKeys == ShortKeys \cup LongKeys

\* The keys given to Get: those, and "\x00\x80", which is never set.
Keys == SetKeys \cup {<<0, 128>>}

Call(op, key, arg, val, ok) ==
    [op |-> op, key |-> key, arg |-> arg, val |-> val, ok |-> ok]

Init ==
    /\ root = New
    /\ state = [k \in Keys |-> Nil]
    /\ ret = Call("New", <<>>, Nil, Nil, FALSE)
    /\ nops = 0
    /\ panicked = FALSE

\* r is what Set gives; a call that panics stores nothing
SetDone(key, val, r) ==
    /\ root' = r.root
    /\ panicked' = r.panic
    /\ state' = IF r.panic THEN state ELSE [state EXCEPT ![key] = val]
    /\ ret' = Call("Set", key, val, r.val, r.ok)
    /\ nops' = nops + 1

SetCall(key, val) ==
    /\ ~panicked
    /\ nops < MaxOps
    /\ SetDone(key, val, Set(root, key, val))

\* a Get that empties the trie it reads
GetDoneWrites(key, r) ==
    /\ ret' = Call("Get", key, Nil, r.val, r.ok)
    /\ root' = New
    /\ UNCHANGED <<state, nops, panicked>>

GetDone(key, r) ==
    /\ ret' = Call("Get", key, Nil, r.val, r.ok)
    /\ UNCHANGED <<root, state, nops, panicked>>

GetCall(key) ==
    /\ ~panicked
    /\ GetDone(key, Get(root, key))

\* As in TestSet_Get, the i-th Set call stores the value i.
Next ==
    \/ \E key \in SetKeys : SetCall(key, nops + 1)
    \/ \E key \in Keys : GetCall(key)

Spec == Init /\ [][Next]_vars

(***************************************************************************)
(* The fan-nodes of TestGet: a fan-node made by newFanNode, with or        *)
(* without a prefix, then filled by addToFanNode (replaceEmpty false) and  *)
(* read by Get.                                                            *)
(*   ret.ok - for an addToFanNode call, which returns nothing, the         *)
(*            replaceEmpty it was given                                    *)
(***************************************************************************)
\* the bytes the prefix of the fan-node is made of: none, "\x00", "\x00\x00"
\* (the zeroPfxFan of TestGet), " ", "\x00\x00\x00" and "\x00\x00\xf8" (24
\* bits, the top five set)
FanPrefixes == {<<>>, <<0>>, <<0, 0>>, <<32>>, <<0, 0, 0>>, <<0, 0, 248>>}

\* the nibble sizes of the fan-nodes
FanNibbleSizes == {4, nibSizeMax}

\* "\x00\x00\xd8" differs from the prefix "\x00\x00\xf8" in bit 21 alone
FanKeys == {<<>>, <<0>>, <<0, 0>>, <<0, 0, 0>>, <<32>>, <<0, 32>>, <<0, 0, 32>>,
            <<0, 0, 216>>}

\* the longest prefix a fan-node of the nibble size has room for (the table of
\* doc.go: 47, 45, 41, 33, 17): the bits below the prefix size field, less
\* the bitmap of 2^nibSize bits and the bit of the empty nibble
fanPrefixMax(nibSize) == pfxSizeOffset - ((2 ^ nibSize) + 1)

\* newFanNode(0, nibSize, len(prefix)*byteWidth, <the bits of prefix>)
FanRoot(nibSize, prefix) ==
    newFanNode(0, nibSize, Len(prefix) * byteWidth,
               takeNBitsSlow(prefix, 0, Len(prefix) * byteWidth).bits)

InitFan ==
    /\ root \in UNION {{FanRoot(w, p) :
                            p \in {x \in FanPrefixes :
                                      Len(x) * byteWidth <= fanPrefixMax(w)}} :
                        w \in FanNibbleSizes}
    /\ state = [k \in FanKeys |-> Nil]
    /\ ret = Call("newFanNode", <<>>, Nil, Nil, FALSE)
    /\ nops = 0
    /\ panicked = FALSE

\* addToFanNode(root, key, val, replaceEmpty), as [root, val, ok, panic]
FanAdd(qp, key, val, replaceEmpty) ==
    IF addToFanNodePanics(qp, key) THEN SetResult(qp, Nil, FALSE, TRUE)
    ELSE SetResult(addToFanNode(qp, key, val, replaceEmpty), Nil, FALSE, FALSE)

FanAddDone(key, val, replaceEmpty, r) ==
    /\ root' = r.root
    /\ panicked' = r.panic
    /\ state' = IF r.panic THEN state ELSE [state EXCEPT ![key] = val]
    /\ ret' = Call("addToFanNode", key, val, Nil, replaceEmpty)
    /\ nops' = nops + 1

\* addToFanNode assumes that the key does not match the prefix of the node or
\* that its nibble is not in the bitmap: it is called where findClosest
\* stopped at the node.
FanAddCall(key, val, replaceEmpty) ==
    /\ ~panicked
    /\ nops < MaxOps
    /\ IsFanNode(root)
    /\ findClosest(root, key).path = <<>>
    /\ FanAddDone(key, val, replaceEmpty, FanAdd(root, key, val, replaceEmpty))

NextFan ==
    \/ \E key \in FanKeys : FanAddCall(key, nops + 1, FALSE)
    \/ \E key \in FanKeys : GetCall(key)

SpecFan == InitFan /\ [][NextFan]_vars

(***************************************************************************)
(* The same fan-nodes filled by addToFanNode with either replaceEmpty (the *)
(* tests of fan_test.go call it with false and with true, Set with true);  *)
(* once addToFanNode has turned the node into a leaf, Set is called on it  *)
(* (TestSet_IsLeaf).                                                       *)
(***************************************************************************)
\* Set on the leaf that addToFanNode made of the empty fan-node
FanSetCall(key, val) ==
    /\ ~panicked
    /\ nops < MaxOps
    /\ IsLeaf(root)
    /\ SetDone(key, val, Set(root, key, val))

NextRepl ==
    \/ \E key \in FanKeys, replaceEmpty \in BOOLEAN :
          FanAddCall(key, nops + 1, replaceEmpty)
    \/ \E key \in FanKeys : FanSetCall(key, nops + 1)
    \/ \E key \in FanKeys : GetCall(key)

SpecRepl == InitFan /\ [][NextRepl]_vars

(***************************************************************************)
(* The bit cursor of testTakeNBits: a key and a shift, read by takeNBits   *)
(* calls, each from where the call before it stopped.                      *)
(*   root  - the cursor: the key and the shift the next call is given      *)
(*   state - the calls made so far, as ret records them                    *)
(***************************************************************************)
\* a key longer than 64 bits
NibLongKey == <<1, 2, 4, 8, 16, 32, 64, 128, 255>>

\* the keys of testTakeNBits ("01010101" is the byte 0xAA, and so on), a
\* byte of ones and the long key
NibKeys == {<<>>, <<170>>, <<255>>, <<170, 51>>, <<170, 51, 85>>,
            <<170, 51, 85, 199>>, NibLongKey}

\* the sizes of testTakeNBits, and the whole word
NibSizes == {0, 1, 4, 5, 8, 10, 12, 13, 33, wordWidth}

NibShifts == 0 .. (byteWidth - 1)

\* the number of takeNBits calls made on one cursor
MaxTakes == 2

Cursor(key, shift) == [key |-> key, shift |-> shift]

InitNib ==
    /\ root \in {Cursor(k, s) : k \in NibKeys, s \in NibShifts}
    /\ state = <<>>
    /\ ret = Call("cursor", <<>>, Nil, Nil, FALSE)
    /\ nops = 0
    /\ panicked = FALSE

\* r is what takeNBits gave: [bits, key, shift]
TakeDone(num, r) ==
    /\ root' = Cursor(r.key, r.shift)
    /\ ret' = Call("takeNBits", root.key, [skip |-> root.shift, num |-> num], r, TRUE)
    /\ state' = Append(state, ret')
    /\ nops' = nops + 1
    /\ UNCHANGED panicked

TakeCall(num) ==
    /\ nops < MaxTakes
    /\ TakeDone(num, takeNBits(root.key, root.shift, num))

NextNib == \E num \in NibSizes : TakeCall(num)

SpecNib == InitNib /\ [][NextNib]_vars

(***************************************************************************)
(* The same bit cursor, read by takeNBits or by takeNBitsAlt               *)
(* (TestTakeNBits and TestTakeNBitsAlt give both the same cases).          *)
(***************************************************************************)
\* part_012:80-106: the bits that the switch on reqBytes reads off the key
altBits(str, skip, reqBytes) ==
    IF reqBytes = 9
    THEN Shl(BitsOf(str[9]), byteWidth * 8 - skip) \cup Shr(LoadLE(str, 0, 8), skip)
    ELSE IF reqBytes = 8 THEN Shr(LoadLE(str, 0, 8), skip)
    ELSE IF reqBytes = 7
    THEN Shl(BitsOf(str[7]), byteWidth * 6 - skip) \cup
         Shr(LoadLE(str, 0, 4), skip) \cup Shl(LoadLE(str, 4, 2), byteWidth * 4 - skip)
    ELSE IF reqBytes = 6
    THEN Shr(LoadLE(str, 0, 4), skip) \cup Shl(LoadLE(str, 4, 2), byteWidth * 4 - skip)
    ELSE IF reqBytes = 5
    THEN Shl(BitsOf(str[5]), byteWidth * 4 - skip) \cup Shr(LoadLE(str, 0, 4), skip)
    ELSE IF reqBytes = 4 THEN Shr(LoadLE(str, 0, 4), skip)
    ELSE IF reqBytes = 3
    THEN Shl(BitsOf(str[3]), byteWidth * 2 - skip) \cup Shr(LoadLE(str, 0, 2), skip)
    ELSE IF reqBytes = 2 THEN Shr(LoadLE(str, 0, 2), skip)
    ELSE BitsOf(str[1] \div (2 ^ skip))

\* part_012:58-109; reqBytes and newSkip are what lines 69-76 leave
takeNBitsAltOf(str, skip, num, reqBytes, newSkip) ==
    IF reqBytes = 0 THEN [bits |-> OneShl(num), key |-> <<>>, shift |-> 0]
    ELSE [bits |-> altBits(str, skip, reqBytes) \cap LowMask(num),
          key |-> Drop(str, Min(Len(str), (skip + num) \div byteWidth)),
          shift |-> newSkip]

takeNBitsAlt(str, skip, num) ==
    LET reqBits == skip + num
        reqBytes == (reqBits \div byteWidth) +
                    (IF reqBits % byteWidth # 0 THEN 1 ELSE 0)
    IN  IF Len(str) < reqBytes
        THEN takeNBitsAltOf(str, skip, num, Len(str), 0)
        ELSE takeNBitsAltOf(str, skip, num, reqBytes, reqBits % byteWidth)

\* the keys of the cursor and the first 5 to 8 bytes of the long key
AltKeys == NibKeys \cup {Take(NibLongKey, n) : n \in 5 .. 8}

InitAlt ==
    /\ root \in {Cursor(k, s) : k \in AltKeys, s \in NibShifts}
    /\ state = <<>>
    /\ ret = Call("cursor", <<>>, Nil, Nil, FALSE)
    /\ nops = 0
    /\ panicked = FALSE

TakeAltDone(num, r) ==
    /\ root' = Cursor(r.key, r.shift)
    /\ ret' = Call("takeNBitsAlt", root.key, [skip |-> root.shift, num |-> num], r, TRUE)
    /\ state' = Append(state, ret')
    /\ nops' = nops + 1
    /\ UNCHANGED panicked

TakeAltCall(num) ==
    /\ nops < MaxTakes
    /\ TakeAltDone(num, takeNBitsAlt(root.key, root.shift, num))

NextAlt ==
    \/ \E num \in NibSizes : TakeCall(num)
    \/ \E num \in NibSizes : TakeAltCall(num)

SpecAlt == InitAlt /\ [][NextAlt]_vars

(***************************************************************************)
(* The codec of testEmbedKey and testExtractKey: a key is embedded into a  *)
(* bitpack, by embedKey or by embedKeySlow, and the bitpack is extracted   *)
(* back into a key, by extractKey or by extractKeySlow.                    *)
(*   root  - the key, then the bitpack, then the extracted key             *)
(*   state - the key given                                                 *)
(***************************************************************************)
\* the longest key given: one byte more than a bitpack holds
MaxEmbLen == 8

\* a zero byte, a byte of testEmbedKey (10100011) and a byte of ones
EmbBytes == {0, 163, 255}

EmbKeys == UNION {[1 .. n -> EmbBytes] : n \in 0 .. MaxEmbLen}

InitEmb ==
    /\ root \in EmbKeys
    /\ state = root
    /\ ret = Call("key", <<>>, Nil, Nil, FALSE)
    /\ nops = 0
    /\ panicked = FALSE

EmbedDone(fn, bitpack) ==
    /\ root' = bitpack
    /\ ret' = Call(fn, root, Nil, bitpack, TRUE)
    /\ nops' = nops + 1
    /\ UNCHANGED <<state, panicked>>

EmbedCall == nops = 0 /\ EmbedDone("embedKey", embedKey(root))

EmbedSlowCall == nops = 0 /\ EmbedDone("embedKeySlow", embedKeySlow(root))

ExtractDone(fn, key) ==
    /\ root' = key
    /\ ret' = Call(fn, state, root, key, TRUE)
    /\ nops' = nops + 1
    /\ UNCHANGED <<state, panicked>>

ExtractCall == nops = 1 /\ ExtractDone("extractKey", extractKey(root))

ExtractSlowCall == nops = 1 /\ ExtractDone("extractKeySlow", extractKeySlow(root))

NextEmb == EmbedCall \/ EmbedSlowCall \/ ExtractCall \/ ExtractSlowCall

SpecEmb == InitEmb /\ [][NextEmb]_vars

(***************************************************************************)
(* The 256-ary set of uint64 (package set under veb).  A value is the      *)
(* sequence of its 8 bytes, highest first: byte i is (val >> (56 - 8*i))   *)
(* & 0xFF.  A Node is [bitmap, children, nil]: the bitmap [4]uint64 is the *)
(* set of the bytes whose bit is set (byte b is bit b & 0x3F of the word   *)
(* b >> 6), children the slice, nil tells a nil *Node.                     *)
(*   root  - the Set: [root, size]                                         *)
(*   state - the set of the values added so far                            *)
(***************************************************************************)
\* a nil *Node
VebNilNode == [bitmap |-> {}, children |-> <<>>, nil |-> TRUE]

\* &Node{}
VebNode == [bitmap |-> {}, children |-> <<>>, nil |-> FALSE]

VebNewSet == [root |-> VebNode, size |-> 0]

\* cnt: the number of bits of the bitmap below the bit of idx
VebCount(node, idx) == Cardinality({b \in node.bitmap : b < idx})

\* Has from level i on: [ok, panic]; reading the bitmap of a nil node panics
RECURSIVE VebHasAt(_, _, _)
VebHasAt(node, val, i) ==
    IF node.nil THEN [ok |-> FALSE, panic |-> TRUE]
    ELSE IF val[i + 1] \notin node.bitmap THEN [ok |-> FALSE, panic |-> FALSE]
    ELSE IF i = 7 THEN [ok |-> TRUE, panic |-> FALSE]
    ELSE VebHasAt(node.children[VebCount(node, val[i + 1]) + 1], val, i + 1)

VebHas(t, val) == VebHasAt(t.root, val, 0)

\* a slice with copy(dst, src) done: the slots from..(to-1) get the first
\* to-from elements of children[src:] (no more than it has)
VebCopy(children, from, to, src) ==
    [j \in 1 .. Len(children) |->
        IF j - 1 >= from /\ j - 1 < to /\ (j - 1 - from) + src < Len(children)
        THEN children[(j - 1 - from) + src + 1]
        ELSE children[j]]

\* the children after a bit was added: append nil, copy when there were
\* children, put a new node at cnt
VebInsert(children, cnt) ==
    [(IF Len(children) > 0
      THEN VebCopy(Append(children, VebNilNode), cnt, Len(children), cnt + 1)
      ELSE Append(children, VebNilNode)) EXCEPT ![cnt + 1] = VebNode]

\* the node with the bit of idx set and what Add gave below it in the child
\* at cnt
VebAddJoin(node, idx, children, cnt, sub) ==
    [node |-> [bitmap |-> node.bitmap \cup {idx},
               children |-> [children EXCEPT ![cnt + 1] = sub.node],
               nil |-> FALSE],
     add |-> sub.add, panic |-> sub.panic]

\* Add from level i on: [node, add, panic]
RECURSIVE VebAddAt(_, _, _)
RECURSIVE VebAddIn(_, _, _, _, _)
VebAddIn(node, val, i, children, cnt) ==
    VebAddJoin(node, val[i + 1], children, cnt, VebAddAt(children[cnt + 1], val, i + 1))

VebAddAt(node, val, i) ==
    IF node.nil THEN [node |-> node, add |-> FALSE, panic |-> TRUE]
    ELSE IF i = 7
    THEN [node |-> [node EXCEPT !.bitmap = @ \cup {val[i + 1]}],
          add |-> val[i + 1] \notin node.bitmap, panic |-> FALSE]
    ELSE VebAddIn(node, val, i,
                  IF val[i + 1] \notin node.bitmap
                  THEN VebInsert(node.children, VebCount(node, val[i + 1]))
                  ELSE node.children,
                  VebCount(node, val[i + 1]))

\* Add: [set, add, panic]
VebAddSized(t, r) ==
    [set |-> [root |-> r.node, size |-> IF r.add THEN t.size + 1 ELSE t.size],
     add |-> r.add, panic |-> r.panic]

VebAdd(t, val) == VebAddSized(t, VebAddAt(t.root, val, 0))

VebLen(t) == t.size

\* the values of Test_SetAdd and Test_AdhocSetHas: 0, 2, 255, 256,
\* 0xFFFFFFFFFFFFFFFF, and 0x0100000000000000
VebVals == {<<0, 0, 0, 0, 0, 0, 0, 0>>, <<0, 0, 0, 0, 0, 0, 0, 2>>,
            <<0, 0, 0, 0, 0, 0, 0, 255>>, <<0, 0, 0, 0, 0, 0, 1, 0>>,
            <<255, 255, 255, 255, 255, 255, 255, 255>>,
            <<1, 0, 0, 0, 0, 0, 0, 0>>}

InitVeb ==
    /\ root = VebNewSet
    /\ state = {}
    /\ ret = Call("NewSet", <<>>, Nil, Nil, FALSE)
    /\ nops = 0
    /\ panicked = FALSE

\* the call records in arg whether the value was in the set before
VebAddDone(val, r) ==
    /\ root' = r.set
    /\ panicked' = r.panic
    /\ state' = IF r.panic THEN state ELSE state \cup {val}
    /\ ret' = Call("Add", val, val \in state, r.add, ~r.panic)
    /\ nops' = nops + 1

VebAddCall(val) ==
    /\ ~panicked
    /\ nops < MaxOps
    /\ VebAddDone(val, VebAdd(root, val))

VebHasDone(val, r) ==
    /\ ret' = Call("Has", val, val \in state, r.ok, ~r.panic)
    /\ panicked' = r.panic
    /\ UNCHANGED <<root, state, nops>>

VebHasCall(val) ==
    /\ ~panicked
    /\ VebHasDone(val, VebHas(root, val))

NextVeb ==
    \/ \E val \in VebVals : VebAddCall(val)
    \/ \E val \in VebVals : VebHasCall(val)

SpecVeb == InitVeb /\ [][NextVeb]_vars

(***************************************************************************)
(* The crit-bit set of byte strings (package set under critbit).  A Ref is *)
(* [Key, node]: node is <<>> for a nil *Node and <<n>> for a pointer to    *)
(* the Node n = [child, off, bit]; child is the pair child[0], child[1],   *)
(* bit the byte as the set of its bits.  A nil and an empty Key are the    *)
(* same to the code, which only takes len(Key).                            *)
(*   root  - the Set: [root, size]                                         *)
(*   state - the set of the keys added and not deleted since               *)
(***************************************************************************)
\* Ref{}
CritNilRef == [Key |-> <<>>, node |-> <<>>]

\* Ref{Key: key}
CritKeyRef(key) == [Key |-> key, node |-> <<>>]

CritNewSet == [root |-> CritNilRef, size |-> 0]

CritDir(n, key) ==
    IF n.off < Len(key) /\ (BitsOf(key[n.off + 1]) \cap n.bit) # {} THEN 1 ELSE 0

CritLen(t) == t.size

CritEmpty(t) == t.root.node = <<>> /\ Len(t.root.Key) = 0

\* the walk for the best member: the Ref with a nil node the key leads to
RECURSIVE CritWalk(_, _)
CritWalk(p, key) ==
    IF p.node # <<>>
    THEN CritWalk(p.node[1].child[CritDir(p.node[1], key) + 1], key)
    ELSE p

\* the membership check is a comparison of the lengths, then of the bytes
CritHas(t, key) ==
    IF CritEmpty(t) THEN FALSE ELSE CritWalk(t.root, key).Key = key

\* find differing byte, from off on: [found, off, ch, bit]; a byte past the
\* end of the member's key reads as 0
RECURSIVE CritDiffAt(_, _, _)
CritDiffAt(key, pkey, off) ==
    IF off < Len(key)
    THEN IF (IF off < Len(pkey) THEN pkey[off + 1] ELSE 0) # key[off + 1]
         THEN [found |-> TRUE, off |-> off,
               ch |-> IF off < Len(pkey) THEN pkey[off + 1] ELSE 0,
               bit |-> Xor(BitsOf(IF off < Len(pkey) THEN pkey[off + 1] ELSE 0),
                           BitsOf(key[off + 1]))]
         ELSE CritDiffAt(key, pkey, off + 1)
    ELSE IF off < Len(pkey)
    THEN [found |-> TRUE, off |-> off, ch |-> pkey[off + 1],
          bit |-> BitsOf(pkey[off + 1])]
    ELSE [found |-> FALSE, off |-> off, ch |-> 0, bit |-> {}]

\* find differing bit: the three shifts smear the highest bit of the byte
\* downwards, bit &^ (bit >> 1) keeps the highest one; 0 stays 0
CritTopBit(bit) ==
    IF bit = {} THEN {} ELSE {CHOOSE i \in bit : \A j \in bit : j <= i}

\* the walk for the best insertion node and the new node put there
RECURSIVE CritInsertAt(_, _, _, _, _)
CritInsertAt(wp, key, off, bit, ndir) ==
    IF /\ wp.node # <<>>
       /\ ~(\/ wp.node[1].off > off
            \/ wp.node[1].off = off /\ ToInt(wp.node[1].bit) < ToInt(bit))
    THEN [Key |-> wp.Key,
          node |-> <<[wp.node[1] EXCEPT
                        !.child[CritDir(wp.node[1], key) + 1] =
                            CritInsertAt(@, key, off, bit, ndir)]>>]
    ELSE [Key |-> <<>>,
          node |-> <<[child |-> IF ndir = 1 THEN <<CritKeyRef(key), wp>>
                                ELSE <<wp, CritKeyRef(key)>>,
                      off |-> off, bit |-> bit]>>]

\* Add once the differing byte d was looked for: [set, ok]
CritAddFound(t, key, d) ==
    IF ~d.found THEN [set |-> t, ok |-> FALSE]
    ELSE [set |-> [root |-> CritInsertAt(t.root, key, d.off, CritTopBit(d.bit),
                                IF (BitsOf(d.ch) \cap CritTopBit(d.bit)) # {}
                                THEN 1 ELSE 0),
                   size |-> t.size + 1],
          ok |-> TRUE]

CritAdd(t, key) ==
    IF CritEmpty(t)
    THEN [set |-> [root |-> CritKeyRef(key), size |-> t.size + 1], ok |-> TRUE]
    ELSE CritAddFound(t, key, CritDiffAt(key, CritWalk(t.root, key).Key, 0))

\* Del below the node of ref, whose child in direction dir the key leads to:
\* [ref, ok]; the Ref of the parent of the member becomes the other child
RECURSIVE CritRemove(_, _, _)
CritRemoveIn(ref, dir, sub) ==
    [ref |-> [Key |-> ref.Key,
              node |-> <<[ref.node[1] EXCEPT !.child[dir + 1] = sub.ref]>>],
     ok |-> sub.ok]

CritRemove(ref, key, dir) ==
    IF ref.node[1].child[dir + 1].node = <<>>
    THEN IF ref.node[1].child[dir + 1].Key = key
         THEN [ref |-> ref.node[1].child[(1 - dir) + 1], ok |-> TRUE]
         ELSE [ref |-> ref, ok |-> FALSE]
    ELSE CritRemoveIn(ref, dir,
             CritRemove(ref.node[1].child[dir + 1], key,
                        CritDir(ref.node[1].child[dir + 1].node[1], key)))

CritDelSized(t, r) ==
    [set |-> [root |-> r.ref, size |-> IF r.ok THEN t.size - 1 ELSE t.size],
     ok |-> r.ok]

CritDel(t, key) ==
    IF CritEmpty(t) THEN [set |-> t, ok |-> FALSE]
    ELSE IF t.root.node = <<>>
    THEN IF t.root.Key = key
         THEN CritDelSized(t, [ref |-> CritNilRef, ok |-> TRUE])
         ELSE [set |-> t, ok |-> FALSE]
    ELSE CritDelSized(t, CritRemove(t.root, key, CritDir(t.root.node[1], key)))

\* "", "a", "a\x00" and "\x00" (zero-byte extensions of "a" and of ""), "b",
\* "aa" and "A" (which differs from "a" in one bit)
CritKeys == {<<>>, <<97>>, <<97, 0>>, <<0>>, <<98>>, <<97, 97>>, <<65>>}

InitCrit ==
    /\ root = CritNewSet
    /\ state = {}
    /\ ret = Call("NewSet", <<>>, Nil, Nil, FALSE)
    /\ nops = 0
    /\ panicked = FALSE

\* the call records in arg whether the key was in the set before
CritAddCall(key) ==
    /\ nops < MaxOps
    /\ root' = CritAdd(root, key).set
    /\ state' = state \cup {key}
    /\ ret' = Call("Add", key, key \in state, CritAdd(root, key).ok, TRUE)
    /\ nops' = nops + 1
    /\ UNCHANGED panicked

CritDelCall(key) ==
    /\ nops < MaxOps
    /\ root' = CritDel(root, key).set
    /\ state' = state \ {key}
    /\ ret' = Call("Del", key, key \in state, CritDel(root, key).ok, TRUE)
    /\ nops' = nops + 1
    /\ UNCHANGED panicked

CritHasCall(key) ==
    /\ ret' = Call("Has", key, key \in state, CritHas(root, key), TRUE)
    /\ UNCHANGED <<root, state, nops, panicked>>

NextCrit ==
    \/ \E key \in CritKeys : CritAddCall(key)
    \/ \E key \in CritKeys : CritDelCall(key)
    \/ \E key \in CritKeys : CritHasCall(key)

SpecCrit == InitCrit /\ [][NextCrit]_vars

(***************************************************************************)
(* The leaves of TestAddToLeaf: a leaf made by newLeaf(key1, shift, 1),    *)
(* split by addToLeaf(twig, key2, 2) and read by findClosest.              *)
(*   root  - the twig                                                      *)
(*   state - what the leaf was made of: [key, shift]                       *)
(***************************************************************************)
LeafBytes == {0, 1, 32, 128, 255}

\* keys of up to 2 bytes, and two that need a regular leaf
LeafKeys ==
    UNION {[1 .. n -> LeafBytes] : n \in 0 .. 2} \cup LongKeys

\* Two keys arrive at a leaf of shift s with the s bits below it read by the
\* fan-nodes above, where they were equal; a key that is exhausted arrives
\* with the shift 0.
LeafAgree(key1, key2, shift) ==
    \/ shift = 0
    \/ /\ key1 # <<>>
       /\ key2 # <<>>
       /\ BitsOf(key1[1]) \cap LowMask(shift) = BitsOf(key2[1]) \cap LowMask(shift)

InitLeaf ==
    /\ state \in {[key |-> k, shift |-> s] :
                    k \in LeafKeys, s \in 0 .. (byteWidth - 1)}
    /\ state.key = <<>> => state.shift = 0
    /\ root = newLeaf(state.key, state.shift, 1)
    /\ ret = Call("newLeaf", state.key, state.shift, Nil, FALSE)
    /\ nops = 0
    /\ panicked = FALSE

\* addToLeaf(twig, key2, 2), called once, with another key than the leaf's
LeafAddCall(key) ==
    /\ IsLeaf(root)
    /\ key # state.key
    /\ LeafAgree(key, state.key, state.shift)
    /\ root' = addToLeaf(root, key, 2)
    /\ ret' = Call("addToLeaf", key, 2, Nil, FALSE)
    /\ nops' = nops + 1
    /\ UNCHANGED <<state, panicked>>

\* findClosest(twig, key) for a key the twig was made of: val is the value
\* of the leaf it stops at, ok what it reports
LeafFindCall(key) ==
    /\ nops > 0
    /\ key \in {state.key, ret.key}
    /\ ret' = [ret EXCEPT !.val = IF IsLeaf(TwigAt(root, findClosest(root, key).path))
                                  THEN getLeafKV(TwigAt(root, findClosest(root, key).path)).val
                                  ELSE Nil,
                          !.ok = findClosest(root, key).ok]
    /\ UNCHANGED <<root, state, nops, panicked>>

NextLeaf ==
    \/ \E key \in LeafKeys : LeafAddCall(key)
    \/ \E key \in LeafKeys : LeafFindCall(key)

SpecLeaf == InitLeaf /\ [][NextLeaf]_vars

(***************************************************************************)
(* What the properties below read off a trie.                              *)
(***************************************************************************)
\* every twig of the trie under twig, twig included
RECURSIVE Twigs(_)
Twigs(twig) ==
    {twig} \cup
    (IF IsLeaf(twig) THEN {}
     ELSE UNION {Twigs(twig.pointer.twigs[i]) : i \in 1 .. Len(twig.pointer.twigs)})

\* what Get returns for a key that is not in the trie
NotFound == [val |-> Nil, ok |-> FALSE]

\* what Get returns for a key that holds val
Found(val) == [val |-> val, ok |-> TRUE]

\* a step of the program that is a Set call
IsSetStep == nops' = nops + 1

\* the trie after Set calls for the pairs <<key, val>> of a sequence, in order
RECURSIVE Build(_, _)
Build(qp, pairs) ==
    IF pairs = <<>> THEN qp
    ELSE Build(Set(qp, Head(pairs)[1], Head(pairs)[2]).root, Tail(pairs))

\* the pairs <<key, val>> of the keys set so far, and the orders to set them in
Pairs == {<<k, state[k]>> : k \in {x \in Keys : state[x] # Nil}}

Orders(S) == {o \in [1 .. Cardinality(S) -> S] : \A i, j \in DOMAIN o : o[i] = o[j] => i = j}

\* what Get returns for every key
GetAll(qp) == [k \in Keys |-> Get(qp, k)]

(***************************************************************************)
(* C1.  Last write wins: after every Set, each key set so far gives Get =  *)
(* (the value of its most recent Set, true).                               *)
(***************************************************************************)
C1_LastWriteWins ==
    \A k \in Keys : state[k] # Nil => Get(root, k) = Found(state[k])

(***************************************************************************)
(* C2.  Independence of distinct keys: a Set(k2, v) leaves the result of   *)
(* Get(k1) as it was, for every k1 other than k2, present or absent.       *)
(***************************************************************************)
C2_Independence ==
    [][IsSetStep => \A k1 \in Keys \ {ret'.key} : Get(root', k1) = Get(root, k1)]_vars

(***************************************************************************)
(* C3.  No false positives: Get of a key that was never given to Set       *)
(* returns (nil, false).                                                   *)
(***************************************************************************)
C3_NoFalsePositives ==
    \A k \in Keys : state[k] = Nil => Get(root, k) = NotFound

(***************************************************************************)
(* C4.  The return value of Set: (v, true) with v the value of the most    *)
(* recent earlier Set of the key, (nil, false) when the key was never set. *)
(***************************************************************************)
C4_SetReturn ==
    [][(IsSetStep /\ ~panicked') =>
          /\ ret'.val = state[ret'.key]
          /\ ret'.ok = (state[ret'.key] # Nil)]_vars

(***************************************************************************)
(* C5.  Insertion-order independence: the pairs set so far (their keys are *)
(* distinct), given to Set on a fresh trie in any two orders, make tries   *)
(* that give the same Get result for every key.                            *)
(***************************************************************************)
C5_OrderIndependence ==
    \A o1, o2 \in Orders(Pairs) : GetAll(Build(New, o1)) = GetAll(Build(New, o2))

(***************************************************************************)
(* C6.  Bitmap/child-array consistency: every fan-node has as many         *)
(* children as its bitmap has bits, so that the index of every set bit is  *)
(* inside the array; an empty fan-node carries the unset sentinel, and     *)
(* every other twig a pointer at what its kind needs.                      *)
(***************************************************************************)
C6_BitmapMatchesChildren ==
    \A t \in Twigs(root) :
        /\ IsLeaf(t) => t.pointer.t \in {"val", "kv"}
        /\ IsCutNode(t) => t.pointer.t \in {"twigs", "cutkv"} /\ Len(t.pointer.twigs) = 1
        /\ IsFanNode(t) =>
              /\ Len(t.pointer.twigs) = Cardinality(FanBitmap(t))
              /\ FanBitmap(t) = {} => t.pointer = unsetPtr
              /\ FanBitmap(t) # {} => t.pointer.t = "twigs"
              /\ \A n \in FanBitmap(t) :
                    Cardinality(FanBitmap(t) \cap LowMask(n)) < Len(t.pointer.twigs)

(***************************************************************************)
(* C7.  The chunk of a cut-node is never empty: 1 to 7 bytes when it is    *)
(* embedded (the pointer is at the next twig), 8 bytes or more when it is  *)
(* in a KV record.                                                         *)
(***************************************************************************)
C7_CutChunkNotEmpty ==
    \A t \in Twigs(root) :
        IsCutNode(t) =>
            /\ t.pointer.t = "twigs" =>
                  Field(t.bitpack, embKeySizeOffset, embKeySizeWidth) \in 1 .. embKeySizeMax
            /\ t.pointer.t = "cutkv" => Len(t.pointer.key) > embKeySizeMax

(***************************************************************************)
(* C8.  The shift invariant: the shift stored in a twig is the shift       *)
(* findClosest carries when it arrives at the twig, for every key whose    *)
(* walk arrives there; the shift of the root is 0.                         *)
(***************************************************************************)
C8_ShiftInvariant ==
    /\ Shift(root) = 0
    /\ \A k \in Keys :
          \A i \in 1 .. Len(findClosest(root, k).shifts) :
              Shift(TwigAt(root, Take(findClosest(root, k).path, i - 1))) =
                  findClosest(root, k).shifts[i]

C10_ShortKeyPrefixMismatch ==
    \A k \in FanKeys :
        (/\ IsFanNode(root)
         /\ FanPrefixSize(root) > 0
         /\ Len(k) * byteWidth - Shift(root) < FanPrefixSize(root)) =>
            /\ findClosest(root, k).path = <<>>
            /\ ~findClosest(root, k).ok
            /\ Get(root, k) = NotFound

(***************************************************************************)
(* What the properties of the bit cursor read off a key.                   *)
(***************************************************************************)
\* the key as a bit stream: byte i gives the bits 8*i .. 8*i+7, lowest first
StreamBits(key) ==
    UNION {{byteWidth * (i - 1) + b : b \in BitsOf(key[i])} : i \in 1 .. Len(key)}

\* the n bits of the stream from bit s on, as a word
StreamSlice(key, s, n) == {j - s : j \in StreamBits(key) \cap (s .. (s + n - 1))}

\* the number of bits the key holds at shift s
BitsLeft(key, s) == Len(key) * byteWidth - s

\* what reading n bits at shift s gives when the key holds them
TakeWithin(key, s, n) ==
    [bits |-> StreamSlice(key, s, n),
     key |-> Drop(key, Min((s + n) \div byteWidth, Len(key))),
     shift |-> (s + n) % byteWidth]

(***************************************************************************)
(* C11.  takeNBits on a non-empty key gives the n bits of the bit stream   *)
(* of the key from bit s on, the key without its first floor((s+n)/8)      *)
(* bytes, and the shift (s+n) mod 8.  As stated, for every non-empty key:  *)
(***************************************************************************)
C11_TakeNonEmpty ==
    (ret.op = "takeNBits" /\ ret.key # <<>>) =>
        ret.val = TakeWithin(ret.key, ret.arg.skip, ret.arg.num)

\* C11, amended: the same, for a non-empty key that holds at least n bits at
\* shift s (8*len(key) - s >= n).
C11_TakeWithinKey ==
    (/\ ret.op = "takeNBits"
     /\ ret.key # <<>>
     /\ BitsLeft(ret.key, ret.arg.skip) >= ret.arg.num) =>
        ret.val = TakeWithin(ret.key, ret.arg.skip, ret.arg.num)

\* 33 bits read from the middle of a byte, over byte borders
C11_Witness ==
    /\ ret.op = "takeNBits"
    /\ ret.key = NibLongKey
    /\ ret.arg = [skip |-> 7, num |-> 33]
    /\ ret.val.key # <<>>

(***************************************************************************)
(* C12.  The end-of-key sentinel: for the empty key, every shift and every *)
(* n in 0..64, takeNBits gives the bits 1 << n (the number 2^n, above      *)
(* every n-bit nibble), the empty key and the shift 0.  As stated:         *)
(***************************************************************************)
C12_EmptyKeySentinel ==
    (ret.op = "takeNBits" /\ ret.key = <<>>) =>
        ret.val = [bits |-> {ret.arg.num}, key |-> <<>>, shift |-> 0]

\* C12, amended: the same for n in 0..63; for n = 64 the bits are 0.
C12_EmptyKeySentinelInWord ==
    (ret.op = "takeNBits" /\ ret.key = <<>>) =>
        /\ ret.val.key = <<>>
        /\ ret.val.shift = 0
        /\ ret.arg.num < wordWidth => ret.val.bits = {ret.arg.num}
        /\ ret.arg.num = wordWidth => ret.val.bits = {}

\* the fast path of 5 bits on an empty key that was given with shift 7
C12_Witness ==
    /\ ret.op = "takeNBits"
    /\ ret.key = <<>>
    /\ ret.arg = [skip |-> 7, num |-> 5]
    /\ nops = 1

(***************************************************************************)
(* C13.  An exhausted key: when the non-empty key holds fewer than n bits  *)
(* at shift s, takeNBits (take4Bits and take5Bits for n = 4 and 5) gives   *)
(* the bits that are left, zero-extended, never the sentinel 2^n, an empty *)
(* remainder and the shift 0; when it holds exactly n bits, an empty       *)
(* remainder and the shift 0 as well.                                      *)
(***************************************************************************)
C13_ExhaustedKey ==
    (/\ ret.op = "takeNBits"
     /\ ret.key # <<>>
     /\ BitsLeft(ret.key, ret.arg.skip) <= ret.arg.num) =>
        /\ ret.val.key = <<>>
        /\ ret.val.shift = 0
        /\ ret.val.bits = StreamSlice(ret.key, ret.arg.skip,
                                      BitsLeft(ret.key, ret.arg.skip))
        /\ ret.val.bits \subseteq 0 .. (BitsLeft(ret.key, ret.arg.skip) - 1)
        /\ ret.val.bits # {ret.arg.num}

\* take5Bits on a byte of ones that has 2 bits left
C13_Witness ==
    /\ ret.op = "takeNBits"
    /\ ret.key = <<255>>
    /\ ret.arg = [skip |-> 6, num |-> 5]
    /\ ret.val.bits = {0, 1}

(***************************************************************************)
(* C14.  Composition: if takeNBits(k, s, n) gives (b1, k1, s1) with k1 not *)
(* empty and takeNBits(k1, s1, m) gives (b2, k2, s2), with n + m <= 64,    *)
(* then takeNBits(k, s, n + m) gives (b1 | (b2 << n), k2, s2).             *)
(***************************************************************************)
C14_Composition ==
    \A i \in 1 .. (Len(state) - 1) :
        (/\ state[i].val.key # <<>>
         /\ state[i].arg.num + state[i + 1].arg.num <= wordWidth) =>
            takeNBits(state[i].key, state[i].arg.skip,
                      state[i].arg.num + state[i + 1].arg.num) =
                [bits |-> state[i].val.bits \cup
                          Shl(state[i + 1].val.bits, state[i].arg.num),
                 key |-> state[i + 1].val.key,
                 shift |-> state[i + 1].val.shift]

\* 1 bit then 4 bits (take4Bits) read over a byte border, against take5Bits
C14_Witness ==
    /\ Len(state) = 2
    /\ state[1].key = <<170, 51>>
    /\ state[1].arg = [skip |-> 6, num |-> 1]
    /\ state[2].arg = [skip |-> 7, num |-> 4]
    /\ state[2].val.key = <<51>>

\* the bytes of a key that a bitpack holds: the first 7
Embedded(key) == Take(key, Min(Len(key), embKeySizeMax))

(***************************************************************************)
(* C15.  The codec round trip: for a key k of at most 7 bytes,             *)
(* extractKey(embedKey(k)) = k; embedKey(k) has bit 62 set, len(k) in the  *)
(* bits 58..56, byte i of k at bit 8*i, and the bits 63 and 61..59 clear;  *)
(* of a longer key only the first 7 bytes are encoded.                     *)
(***************************************************************************)
C15_CodecRoundTrip ==
    /\ ret.op \in {"embedKey", "embedKeySlow"} =>
          /\ embKeyBitOffset \in ret.val
          /\ Field(ret.val, embKeySizeOffset, embKeySizeWidth) =
                 Min(Len(ret.key), embKeySizeMax)
          /\ \A i \in 0 .. (Min(Len(ret.key), embKeySizeMax) - 1) :
                 Field(ret.val, byteWidth * i, byteWidth) = ret.key[i + 1]
          /\ leafBitOffset \notin ret.val
          /\ ret.val \cap nibShiftMask = {}
          /\ ret.val \cap LowMask(embKeySizeOffset) =
                 StreamBits(Embedded(ret.key))
    /\ ret.op \in {"extractKey", "extractKeySlow"} =>
          /\ Len(ret.key) <= embKeySizeMax => ret.val = ret.key
          /\ ret.val = Embedded(ret.key)

\* a key of 7 bytes that ends with a zero byte, through embedKey and extractKey
C15_Witness ==
    /\ ret.op = "extractKey"
    /\ ret.key = <<163, 0, 255, 0, 163, 255, 0>>
    /\ ret.val = ret.key
    /\ Field(ret.arg, embKeySizeOffset, embKeySizeWidth) = embKeySizeMax

\* every node of the set under node, node included
RECURSIVE VebNodes(_)
VebNodes(node) ==
    {node} \cup UNION {VebNodes(node.children[i]) : i \in 1 .. Len(node.children)}

(***************************************************************************)
(* C16.  The 256-ary set: after any Add calls on NewSet(), Has(v) is true  *)
(* exactly for the values added, Add(v) returns true exactly when v was    *)
(* not in the set, Len() is the number of distinct values added, and every *)
(* node has as many children as its bitmap has bits (none is nil).         *)
(***************************************************************************)
C16_VebSet ==
    /\ ~panicked
    /\ \A v \in VebVals : VebHas(root, v) = [ok |-> v \in state, panic |-> FALSE]
    /\ ret.op = "Add" => ret.val = ~ret.arg
    /\ VebLen(root) = Cardinality(state)
    /\ \A n \in VebNodes(root.root) :
          /\ ~n.nil
          /\ Len(n.children) \in {0, Cardinality(n.bitmap)}

(***************************************************************************)
(* C17.  The crit-bit set: after any Add and Del calls on NewSet(), Has(k) *)
(* is true right after Add(k), the empty key and zero-byte extensions of   *)
(* stored keys included; Add(k) returns true exactly when k was not in the *)
(* set; and Len() is the number of keys for which Has is true.             *)
(***************************************************************************)
C17_CritSet ==
    /\ ret.op = "Add" => CritHas(root, ret.key)
    /\ ret.op = "Add" => ret.val = ~ret.arg
    /\ CritLen(root) = Cardinality({k \in CritKeys : CritHas(root, k)})

\* The bridge addToCutNode builds (part_002:126-130 and 179-183): below the
\* cut-node of the common prefix bytes, when there are any, a chain of
\* fan-nodes with one child each, ending in the fan-node with the new leaf
\* and the new cut-node.
BridgeTop(new, num) == IF num > 0 THEN getCutNodeTwig(new) ELSE new

RECURSIVE BridgeEnd(_)
BridgeEnd(twig) ==
    IF Len(twig.pointer.twigs) = 1 THEN BridgeEnd(twig.pointer.twigs[1]) ELSE twig

\* the number of fan-nodes of the bridge: each takes nibSizeMax bits
RECURSIVE BridgeFans(_)
BridgeFans(twig) ==
    IF Len(twig.pointer.twigs) = 1 THEN 1 + BridgeFans(twig.pointer.twigs[1]) ELSE 1

(***************************************************************************)
(* C18.  addToCutNode keeps the old subtree reachable: when Set stops at a *)
(* cut-node with the chunk C that the rest of the key does not start with, *)
(* after the call the new key is found with its value; every key that was  *)
(* found beneath the cut-node is found with the same value; the bridge of  *)
(* fan-nodes takes no more bits than C has after the common prefix bytes;  *)
(* and the new cut-node holds the rest of C at the shift the bridge ends   *)
(* with, and points at the original child.                                 *)
(***************************************************************************)
C18_CutNodeKeepsSubtree ==
    [][(/\ IsSetStep
        /\ ~findClosest(root, ret'.key).ok
        /\ ~findClosest(root, ret'.key).ub
        /\ IsCutNode(TwigAt(root, findClosest(root, ret'.key).path)))
       => LET fc == findClosest(root, ret'.key)
              old == TwigAt(root, fc.path)
              new == TwigAt(root', fc.path)
              C == getCutNodeKey(old)
              num == CommonBytes(fc.key, C)
              top == BridgeTop(new, num)
              bits == (IF num > 0 THEN 0 ELSE Shift(old)) + nibSizeMax * BridgeFans(top)
          IN  /\ Get(root', ret'.key) = Found(ret'.arg)
              /\ \A k \in Keys :
                    (/\ Len(findClosest(root, k).path) > Len(fc.path)
                     /\ Take(findClosest(root, k).path, Len(fc.path)) = fc.path
                     /\ Get(root, k).ok)
                    => Get(root', k) = Get(root, k)
              /\ bits <= byteWidth * (Len(C) - num)
              /\ \E i \in 1 .. Len(BridgeEnd(top).pointer.twigs) :
                    /\ IsCutNode(BridgeEnd(top).pointer.twigs[i])
                    /\ getCutNodeTwig(BridgeEnd(top).pointer.twigs[i]) = getCutNodeTwig(old)
                    /\ getCutNodeKey(BridgeEnd(top).pointer.twigs[i]) =
                           Drop(C, num + (bits \div byteWidth))
                    /\ Shift(BridgeEnd(top).pointer.twigs[i]) = bits % byteWidth]_vars

\* the keys given to addToFanNode so far
FanAdded == {k \in FanKeys : state[k] # Nil}

(***************************************************************************)
(* C19.  addToFanNode on a fan-node made by newFanNode: after adding       *)
(* distinct keys with addToFanNode(node, key, val, false), each call made  *)
(* when findClosest for the key stops at the node itself, the node is      *)
(* still a fan-node and every key added so far is found (ok = true) at a   *)
(* leaf that holds its value.  (The calls were of distinct keys when there *)
(* are as many keys as calls.)                                             *)
(***************************************************************************)
C19_FanNodeKeepsKeys ==
    Cardinality(FanAdded) = nops =>
        /\ ~panicked
        /\ IsFanNode(root)
        /\ \A k \in FanAdded :
              /\ findClosest(root, k).ok
              /\ IsLeaf(TwigAt(root, findClosest(root, k).path))
              /\ Get(root, k) = Found(state[k])

\* fan.go:40-53: addToFanNode splits the prefix of the node for the key
fanSplits(node, key) ==
    /\ FanPrefixSize(node) > 0
    /\ ~(/\ FanPrefix(node) =
              takeNBits(key, Shift(node),
                        Min(FanPrefixSize(node),
                            Len(key) * byteWidth - Shift(node))).bits
         /\ FanPrefixSize(node) <= Len(key) * byteWidth - Shift(node))

\* fan.go:215: the nibble of the old prefix in the fan-node new that was put
\* before the node old
fanSplitNib(old, new) ==
    ToInt(Shr(FanPrefix(old), FanPrefixSize(new)) \cap LowMask(FanNibbleSize(new)))

(***************************************************************************)
(* C20.  The shape of a prefix split: when addToFanNode splits a prefixed  *)
(* fan-node (the bits of the key disagree with the prefix, or the key has  *)
(* fewer bits than the prefix), the node left in the slot is a fan-node    *)
(* with exactly two bits in its bitmap and exactly two children: the       *)
(* original fan-node, with the bitmap and the children it had, under the   *)
(* nibble taken from the old prefix, and a new leaf for the key under the  *)
(* nibble of the key.                                                      *)
(***************************************************************************)
C20_PrefixSplitShape ==
    [][(/\ ret'.op = "addToFanNode"
        /\ IsSetStep
        /\ ~panicked'
        /\ fanSplits(root, ret'.key))
       => /\ IsFanNode(root')
          /\ Cardinality(FanBitmap(root')) = 2
          /\ Len(root'.pointer.twigs) = 2
          /\ fanSplitNib(root, root') \in FanBitmap(root')
          /\ LET oldFan == root'.pointer.twigs[
                     Cardinality(FanBitmap(root') \cap LowMask(fanSplitNib(root, root'))) + 1]
             IN  /\ IsFanNode(oldFan)
                 /\ FanBitmap(oldFan) = FanBitmap(root)
                 /\ oldFan.pointer = root.pointer
          /\ Len(findClosest(root', ret'.key).path) = 1
          /\ IsLeaf(TwigAt(root', findClosest(root', ret'.key).path))
          /\ Get(root', ret'.key) = Found(ret'.arg)]_vars

(***************************************************************************)
(* C21.  The prefix bound: when the fan-node given to addToFanNode has a   *)
(* prefix of at most fanPrefixMax(w) = 50 - (2^w + 1) bits, every fan-node *)
(* the call leaves (the new outer node and the relocated inner node) has a *)
(* prefix of at most fanPrefixMax of its own nibble size, so that the      *)
(* prefix bits stay above the 2^w + 1 bits of the bitmap.                  *)
(***************************************************************************)
C21_PrefixBound ==
    [][(/\ ret'.op = "addToFanNode"
        /\ IsSetStep
        /\ IsFanNode(root)
        /\ FanPrefixSize(root) <= fanPrefixMax(FanNibbleSize(root)))
       => \A t \in {root'} \cup {root'.pointer.twigs[i] : i \in 1 .. Len(root'.pointer.twigs)} :
              IsFanNode(t) => FanPrefixSize(t) <= fanPrefixMax(FanNibbleSize(t))]_vars

(***************************************************************************)
(* C22.  The nibble size range: every fan-node there is after newFanNode   *)
(* with a nibble size in 1..5 and any addToFanNode calls has a nibble size *)
(* in 1..5; a prefix split makes no fan-node of nibble size 0, also when   *)
(* the key is empty.                                                       *)
(***************************************************************************)
C22_NibbleSizeRange ==
    \A t \in Twigs(root) : IsFanNode(t) => FanNibbleSize(t) \in 1 .. nibSizeMax

LeafVals(twig) == {getLeafKV(t).val : t \in {x \in Twigs(twig) : IsLeaf(x)}}

\* The nibble of n bits a key has at the bit pos of its stream: the bits the
\* key has there, zeros for those it lacks, and the bit of the empty nibble
\* when it has none left.
NibAt(key, pos, n) ==
    IF pos >= byteWidth * Len(key) THEN 2 ^ n
    ELSE ToInt(StreamSlice(key, pos, n))

\* the nibbles that the keys stored under a twig have at the bit pos of their
\* streams (the i-th Set stores the value i, so the value of a leaf tells the
\* key it was stored for)
NibsUnder(twig, pos, n) ==
    {NibAt(k, pos, n) : k \in {x \in Keys : state[x] \in LeafVals(twig) /\ state[x] # 0}}

\* Under the twig, which the keys reach with pos bits read, the children of
\* every fan-node are in the increasing order of the nibbles of the keys they
\* hold: a child holds keys of one nibble, and that nibble is less than the
\* nibble of every later child (so the child of the empty nibble is the last).
RECURSIVE ChildrenOrdered(_, _)
ChildrenOrdered(twig, pos) ==
    IF IsLeaf(twig) THEN TRUE
    ELSE IF IsCutNode(twig)
    THEN ChildrenOrdered(getCutNodeTwig(twig),
                         byteWidth * ((pos \div byteWidth) + Len(getCutNodeKey(twig))))
    ELSE \A i \in 1 .. Len(twig.pointer.twigs) :
            /\ \A j \in (i + 1) .. Len(twig.pointer.twigs) :
                  \A a \in NibsUnder(twig.pointer.twigs[i],
                                     pos + FanPrefixSize(twig), FanNibbleSize(twig)),
                     b \in NibsUnder(twig.pointer.twigs[j],
                                     pos + FanPrefixSize(twig), FanNibbleSize(twig)) :
                      a < b
            /\ ChildrenOrdered(twig.pointer.twigs[i],
                               pos + FanPrefixSize(twig) + FanNibbleSize(twig))

(***************************************************************************)
(* C24.  The order of the children: in every fan-node of a trie made by    *)
(* New() and Set calls the children are in the increasing order of the     *)
(* nibbles they are for, the child of the empty nibble (bit 2^w) last:     *)
(* the keys under a child have a smaller nibble than the keys under every  *)
(* later child of the same fan-node.                                       *)
(***************************************************************************)
C24_ChildOrder == ChildrenOrdered(root, 0)

\* the keys the trie holds
SetKeysHeld == {k \in Keys : state[k] # Nil}

(***************************************************************************)
(* C25, as stated.  Set passes replaceEmpty = false to addToFanNode, so    *)
(* the root of a trie made by New() stays a fan-node after any Set calls.  *)
(***************************************************************************)
C25_RootStaysFanNode == IsFanNode(root)

(***************************************************************************)
(* C25, corrected.  Set passes replaceEmpty = true: the root of a trie     *)
(* made by New() is an empty fan-node of shift 0 until the first Set, a    *)
(* leaf of shift 0 holding the whole key and its last value while the trie *)
(* holds one key, and a node again once it holds two keys or more.         *)
(***************************************************************************)
C25_RootLeafOfOneKey ==
    ~panicked =>
        /\ SetKeysHeld = {} => IsFanNode(root) /\ FanBitmap(root) = {} /\ Shift(root) = 0
        /\ \A k \in SetKeysHeld :
              SetKeysHeld = {k} =>
                  /\ IsLeaf(root)
                  /\ Shift(root) = 0
                  /\ getLeafKV(root) = [key |-> k, val |-> state[k]]
        /\ Cardinality(SetKeysHeld) >= 2 => IsNode(root)

\* the first Set has turned the root into the leaf of its key
C25_Witness ==
    /\ ret.op = "Set"
    /\ nops = 1
    /\ ret.key = <<0, 32>>
    /\ IsLeaf(root)
    /\ getLeafKV(root) = [key |-> <<0, 32>>, val |-> 1]

\* addToFanNode has been called on a fan-node whose bitmap was empty
EmptyFanStep ==
    /\ ret'.op = "addToFanNode"
    /\ IsSetStep
    /\ ~panicked'
    /\ IsFanNode(root)
    /\ FanBitmap(root) = {}

\* what replaceEmpty means for the empty fan-node given to addToFanNode
ReplaceEmptyMeaning ==
    IF ret'.ok
    THEN /\ IsLeaf(root')
         /\ Shift(root') = Shift(root)
         /\ getLeafKV(root') = [key |-> ret'.key, val |-> ret'.arg]
    ELSE /\ IsFanNode(root')
         /\ Shift(root') = Shift(root)
         /\ FanNibbleSize(root') = FanNibbleSize(root)
         /\ FanPrefixSize(root') = FanPrefixSize(root)
         /\ FanPrefix(root') = FanPrefix(root)
         /\ Cardinality(FanBitmap(root')) = 1
         /\ Len(root'.pointer.twigs) = 1
         /\ IsLeaf(root'.pointer.twigs[1])

\* Set has been called on the leaf the fan-node was turned into: the leaf
\* stays a leaf when Set replaces its value and is a node again when Set
\* adds another key
LeafSetMeaning ==
    (/\ ret'.op = "Set"
     /\ IsSetStep
     /\ ~panicked'
     /\ IsLeaf(root))
    => IF ret'.key = getLeafKV(root).key
       THEN /\ IsLeaf(root')
            /\ getLeafKV(root') = [key |-> ret'.key, val |-> ret'.arg]
       ELSE IsNode(root')

(***************************************************************************)
(* C26, as stated.  addToFanNode on a fan-node whose bitmap is empty turns *)
(* it in place into a leaf holding the whole key at the node's shift when  *)
(* replaceEmpty is true, and otherwise keeps it a fan-node of the same     *)
(* shift, nibble size and prefix with one bitmap bit and one child, a      *)
(* leaf; the leaf stays a leaf when its value is replaced and is a node    *)
(* again when a second key is set.                                         *)
(***************************************************************************)
C26_ReplaceEmpty ==
    [][(EmptyFanStep => ReplaceEmptyMeaning) /\ LeafSetMeaning]_vars

(***************************************************************************)
(* C26, corrected.  The same for a key that agrees with the prefix of the  *)
(* fan-node (or a fan-node with no prefix); for a key that does not, the   *)
(* empty fan-node is split first, whatever replaceEmpty is, and what is    *)
(* left in its place is a fan-node.                                        *)
(***************************************************************************)
C26_ReplaceEmptyPrefixAgrees ==
    [][/\ (EmptyFanStep /\ ~fanSplits(root, ret'.key)) => ReplaceEmptyMeaning
       /\ (EmptyFanStep /\ fanSplits(root, ret'.key)) => IsFanNode(root')
       /\ LeafSetMeaning]_vars

\* addToFanNode with replaceEmpty has turned the empty fan-node into the leaf
\* of "\x00 " (Set is called on a leaf only), and Set of another key has
\* then made it a node again
C26_Witness ==
    /\ ret.op = "Set"
    /\ nops = 2
    /\ ret.key = <<0, 0>>
    /\ state[<<0, 32>>] = 1
    /\ IsNode(root)
    /\ ~panicked

\* the fan-node old was split into the outer node new and the inner node in
\* with no bit of the prefix lost
SplitKeepsBits(old, new, in) ==
    /\ FanPrefixSize(new) + FanNibbleSize(new) + FanPrefixSize(in) = FanPrefixSize(old)
    /\ FanPrefix(new) = FanPrefix(old) \cap LowMask(FanPrefixSize(new))
    /\ fanSplitNib(old, new) \in FanBitmap(new)
    /\ FanPrefix(in) =
           Shr(FanPrefix(old), FanPrefixSize(new) + FanNibbleSize(new))
               \cap LowMask(FanPrefixSize(in))
    /\ Shift(in) = (Shift(old) + FanPrefixSize(new) + FanNibbleSize(new)) % byteWidth

(***************************************************************************)
(* C27.  No bit is lost in a prefix split: when addToFanNode splits a      *)
(* fan-node of shift s with a prefix of p bits into an outer node (prefix  *)
(* of p1 bits, nibble size w1) and the inner node it relocates (prefix of  *)
(* p2 bits), then p1 + w1 + p2 = p, the outer prefix is the low p1 bits of *)
(* the old prefix, the inner node is under the nibble made of the bits     *)
(* p1 .. p1+w1-1 of the old prefix, the inner prefix is the top p2 bits of *)
(* the old prefix and the shift of the inner node is (s + p1 + w1) mod 8.  *)
(***************************************************************************)
C27_SplitKeepsBits ==
    [][(/\ ret'.op = "addToFanNode"
        /\ IsSetStep
        /\ ~panicked'
        /\ fanSplits(root, ret'.key))
       => /\ IsFanNode(root')
          /\ \E i \in 1 .. Len(root'.pointer.twigs) :
                /\ IsFanNode(root'.pointer.twigs[i])
                /\ SplitKeepsBits(root, root', root'.pointer.twigs[i])]_vars

(***************************************************************************)
(* C28.  In every trie made by New() and Set calls, every fan-node has the *)
(* nibble size 5 and no prefix; so the fan-node that Set and Get stop at   *)
(* or walk through never has a prefix to match or to split.                *)
(***************************************************************************)
C28_PublicFanNodes ==
    \A t \in Twigs(root) :
        IsFanNode(t) => FanNibbleSize(t) = nibSizeMax /\ FanPrefixSize(t) = 0

\* three Set calls have made a fan-node under a fan-node under the root
C28_Witness ==
    /\ nops = 3
    /\ ~panicked
    /\ IsFanNode(root)
    /\ \E i \in 1 .. Len(root.pointer.twigs) :
          /\ IsFanNode(root.pointer.twigs[i])
          /\ \E j \in 1 .. Len(root.pointer.twigs[i].pointer.twigs) :
                IsFanNode(root.pointer.twigs[i].pointer.twigs[j])

C30_AltIsTakeNBits ==
    ret.op = "takeNBitsAlt" => ret.val = takeNBits(ret.key, ret.arg.skip, ret.arg.num)

=============================================================================
